---- MODULE Spec2Model ----
(***************************************************************************)
(* Model of the Flask backend in src/backend/app.py: the product store     *)
(* (one JSON file read whole and rewritten whole), the engagement          *)
(* endpoints, the bulk initialisation and the status logic of              *)
(* /api/analyze.                                                           *)
(*                                                                         *)
(* JSON values are tagged records: Num(n) is a number, StrVal a string     *)
(* that is not a timestamp, Ts(n) the ISO string datetime.utcnow() gives   *)
(* at clock reading n (ISO strings of one format order as their clock      *)
(* readings do).  A product is [id, has, stats]: has says whether the      *)
(* record holds the key 'engagement_stats', stats is that object as a      *)
(* function from its keys.                                                 *)
(***************************************************************************)
EXTENDS Integers, Sequences, FiniteSets, TLC

VARIABLES
  products,   \* the content of all_products.json: a sequence of product records
  clock,      \* the reading datetime.utcnow() gives now
  last,       \* the last request served one at a time, and its response
  before,     \* the content of the file when that request arrived
  threads,    \* the two PUT requests served concurrently: position, memory
  log         \* the file accesses of the concurrent requests, in order

vars == <<products, clock, last, before, threads, log>>

\* Bounds of the model.
MaxCount == 2
MaxClock == 2

----------------------------------------------------------------------------
\* JSON values

Num(n) == [t |-> "num", v |-> n]
StrVal == [t |-> "str", v |-> 0]
Ts(n) == [t |-> "ts", v |-> n]

Counters == {"likes", "dislikes", "rerolls", "routines", "views"}

EmptyStats == [k \in {} |-> Num(0)]

\* The literal of lines 288-295, 306-313 and 352-359.
ZeroStats(now) ==
  [k \in Counters \cup {"last_updated"} |->
     IF k = "last_updated" THEN Ts(now) ELSE Num(0)]

\* d[k] = v on a Python dict: the key is added when it is not there.
SetKey(stats, k, v) ==
  [x \in DOMAIN stats \cup {k} |-> IF x = k THEN v ELSE stats[x]]

\* isinstance(current_value, (int, float))
IsNumberAlwaysFalse(x) == FALSE
IsNumber(x) == x.t = "num"

\* The scan of lines 275-279 (and next(...) of line 253): the index of the
\* first record with the id, 0 for None.
FindIndexDefaultsToFirst(ps, product_id) ==
  LET hits == {i \in 1..Len(ps) : ps[i].id = product_id}
  IN IF hits = {} THEN 1 ELSE CHOOSE i \in hits : \A j \in hits : i <= j
FindIndex(ps, product_id) ==
  LET hits == {i \in 1..Len(ps) : ps[i].id = product_id}
  IN IF hits = {} THEN 0 ELSE CHOOSE i \in hits : \A j \in hits : i <= j

\* The loop of lines 316-323 over the items of the body, in the body's order.
\* Adding a non-number to a number raises TypeError: raised, with the deltas
\* of the earlier keys already applied to the in-memory object.
RECURSIVE ApplyDeltasAnyKey(_, _)
ApplyDeltasAnyKey(stats, items) ==
  IF items = <<>> THEN [raised |-> FALSE, stats |-> stats]
  ELSE LET key == Head(items)[1]
           value == Head(items)[2]
           current_value ==
             IF key \in DOMAIN stats /\ IsNumber(stats[key]) THEN stats[key] ELSE Num(0)
       IN IF IsNumber(value)
          THEN ApplyDeltasAnyKey(SetKey(stats, key, Num(current_value.v + value.v)),
                                 Tail(items))
          ELSE [raised |-> TRUE, stats |-> stats]

RECURSIVE ApplyDeltas(_, _)
ApplyDeltas(stats, items) ==
  IF items = <<>> THEN [raised |-> FALSE, stats |-> stats]
  ELSE LET key == Head(items)[1]
           value == Head(items)[2]
       IN IF key \in DOMAIN stats /\ key # "last_updated"
          THEN LET current_value == IF IsNumber(stats[key]) THEN stats[key] ELSE Num(0)
               IN IF IsNumber(value)
                  THEN ApplyDeltas([stats EXCEPT ![key] = Num(current_value.v + value.v)],
                                   Tail(items))
                  ELSE [raised |-> TRUE, stats |-> stats]
          ELSE ApplyDeltas(stats, Tail(items))

\* Whether control reaches the save of lines 329-330: an exception raised
\* before it goes to the handler of line 333.
SaveInFinally(raised) == TRUE
SaveReached(raised) == ~raised

\* json.dump(products, f) on the file opened with 'w': the whole file is
\* replaced by the request's in-memory collection.
SaveOnlyOwnRecord(file, mem, index) == [file EXCEPT ![index] = mem[index]]
SaveFile(file, mem, index) == mem

----------------------------------------------------------------------------
\* Responses

NoProduct == [id |-> "", has |-> FALSE, stats |-> EmptyStats]
ErrorResp == [error |-> TRUE, product |-> NoProduct]
OkResp(p) == [error |-> FALSE, product |-> p]

\* return jsonify({'error': ...}), status: nothing is written.
Failure(status, ps) ==
  [status |-> status, write |-> FALSE, mem |-> ps, index |-> 0, resp |-> ErrorResp]

\* An exception caught at line 333: 500.
Raised(ps, index) ==
  [status |-> 500, write |-> SaveReached(TRUE), mem |-> ps, index |-> index,
   resp |-> ErrorResp]

\* update_product_engagement from the file's content ps to the response: the
\* status, the in-memory collection when the handler ends, whether it was
\* saved, and the body returned.
UpdateEngagement(ps, product_id, method, body, now) ==
  LET product_index == FindIndex(ps, product_id)
  IN IF product_index = 0 THEN Failure(404, ps)
     ELSE IF method = "GET"
     THEN LET mem == IF ~ps[product_index].has
                     THEN [ps EXCEPT ![product_index].has = TRUE,
                                     ![product_index].stats = ZeroStats(now)]
                     ELSE ps
          IN [status |-> 200, write |-> FALSE, mem |-> mem, index |-> product_index,
              resp |-> OkResp([id |-> "", has |-> TRUE, stats |-> mem[product_index].stats])]
     ELSE IF ~body.is_json THEN Failure(400, ps)
     ELSE IF body.kind = "invalid" THEN Raised(ps, product_index)
     ELSE LET inited == IF ~ps[product_index].has
                        THEN [ps EXCEPT ![product_index].has = TRUE,
                                        ![product_index].stats = ZeroStats(now)]
                        ELSE ps
          IN IF body.kind # "object" THEN Raised(inited, product_index)
             ELSE LET r == ApplyDeltas(inited[product_index].stats, body.items)
                  IN IF r.raised
                     THEN Raised([inited EXCEPT ![product_index].stats = r.stats],
                                 product_index)
                     ELSE LET mem == [inited EXCEPT ![product_index].stats =
                                        SetKey(r.stats, "last_updated", Ts(now))]
                          IN [status |-> 200, write |-> SaveReached(FALSE), mem |-> mem,
                              index |-> product_index, resp |-> OkResp(mem[product_index])]

\* get_product (lines 245-258): 404 when no record has the id.
GetProductById(ps, product_id) ==
  LET product_index == FindIndex(ps, product_id)
  IN IF product_index = 0 THEN Failure(404, ps)
     ELSE [status |-> 200, write |-> FALSE, mem |-> ps, index |-> product_index,
           resp |-> OkResp(ps[product_index])]

\* The loop of lines 349-359: one timestamp for the batch, given to every
\* record that has no engagement_stats.
InitializeAllRestamps(ps, now) ==
  [i \in 1..Len(ps) |-> [ps[i] EXCEPT !.has = TRUE, !.stats = ZeroStats(now)]]
InitializeAll(ps, now) ==
  [i \in 1..Len(ps) |->
     IF ~ps[i].has THEN [ps[i] EXCEPT !.has = TRUE, !.stats = ZeroStats(now)]
     ELSE ps[i]]

\* analyze_hair (lines 156-203), from what the request holds to the status.
\*   content_json: the Content-Type says JSON (request.is_json)
\*   parse: what request.json gives: "invalid" raises BadRequest, which the
\*          except Exception of line 200 catches; "nonobject" is a list, a
\*          string, a number or null, and .get raises AttributeError there
\*   image: "missing" or "empty" are falsy; "nonstring" is truthy and raises
\*          TypeError inside the inner try, like "bad_base64" (binascii.Error)
\*          and "not_image" (PIL); "image" opens and verifies
\*   classifier_raises: classifier.predict raises
AnalyzeStatus(input) ==
  IF ~input.content_json THEN 400
  ELSE IF input.parse # "object" THEN 500
  ELSE IF input.image \in {"missing", "empty"} THEN 400
  ELSE IF input.image # "image" THEN 400
  ELSE IF input.classifier_raises THEN 500
  ELSE 200

----------------------------------------------------------------------------
\* Requests

StoredIds == <<"p1", "p2">>
ReqIds == {"p1", "p2", "p9"}

NoBody == [is_json |-> FALSE, kind |-> "none", items |-> <<>>]
NotJsonBody == [is_json |-> FALSE, kind |-> "invalid", items |-> <<>>]
InvalidJsonBody == [is_json |-> TRUE, kind |-> "invalid", items |-> <<>>]
NonObjectBody == [is_json |-> TRUE, kind |-> "nonobject", items |-> <<>>]
ObjectBody(items) == [is_json |-> TRUE, kind |-> "object", items |-> items]

\* The items a PUT body is made of: a delta for likes, non-numeric deltas, a
\* name that is no counter, and a client's last_updated.
Items ==
  {<<"likes", Num(1)>>, <<"likes", StrVal>>, <<"views", StrVal>>,
   <<"bogus_field", Num(1)>>, <<"last_updated", StrVal>>}

\* JSON objects of one item, or of a numeric delta followed by a second item
\* with another name.
ItemSeqs ==
  {<<a>> : a \in Items} \cup
  {s \in {<<a, b>> : a \in Items, b \in Items} : IsNumber(s[1][2]) /\ s[1][1] # s[2][1]}

Bodies ==
  {NotJsonBody, InvalidJsonBody, NonObjectBody} \cup {ObjectBody(s) : s \in ItemSeqs}

NoInput ==
  [content_json |-> FALSE, parse |-> "none", image |-> "none", classifier_raises |-> FALSE]
AnalyzeInput(c, p, i, r) ==
  [content_json |-> c, parse |-> p, image |-> i, classifier_raises |-> r]
AnalyzeInputs ==
  {AnalyzeInput(FALSE, "invalid", "missing", FALSE),
   AnalyzeInput(TRUE, "invalid", "missing", FALSE),
   AnalyzeInput(TRUE, "nonobject", "missing", FALSE)} \cup
  {AnalyzeInput(TRUE, "object", i, FALSE) :
     i \in {"missing", "empty", "nonstring", "bad_base64", "not_image", "image"}} \cup
  {AnalyzeInput(TRUE, "object", "image", TRUE)}

NoReq ==
  [op |-> "none", id |-> "", body |-> NoBody, input |-> NoInput, status |-> 0,
   resp |-> ErrorResp, mem |-> <<>>, now |-> 0, afterInit |-> FALSE]

\* The engagement_stats a stored record starts with: none, all counters 0, a
\* counter that is no number, an object holding only some of the counters.
PartialStats == [k \in {"views", "last_updated"} |-> ZeroStats(0)[k]]
CorruptStats == [ZeroStats(0) EXCEPT !["likes"] = StrVal]
InitShapes ==
  {[has |-> FALSE, stats |-> EmptyStats], [has |-> TRUE, stats |-> ZeroStats(0)],
   [has |-> TRUE, stats |-> CorruptStats], [has |-> TRUE, stats |-> PartialStats]}

Product(id, shape) == [id |-> id, has |-> shape.has, stats |-> shape.stats]

\* No counter above the model's bound.
WithinBounds(ps) ==
  \A i \in 1..Len(ps) : \A k \in DOMAIN ps[i].stats :
    IsNumber(ps[i].stats[k]) => ps[i].stats[k].v <= MaxCount

----------------------------------------------------------------------------
\* Requests served one at a time

Threads == {1, 2}
IdleThread == [pc |-> "off", id |-> "", body |-> NoBody, out |-> Failure(0, <<>>)]

Init ==
  /\ \E s1 \in InitShapes, s2 \in InitShapes :
       products = <<Product(StoredIds[1], s1), Product(StoredIds[2], s2)>>
  /\ clock = 1
  /\ last = NoReq
  /\ before = products
  /\ threads = [t \in Threads |-> IdleThread]
  /\ log = <<>>

Served(op, id, body, input, out) ==
  [op |-> op, id |-> id, body |-> body, input |-> input, status |-> out.status,
   resp |-> out.resp, mem |-> out.mem, now |-> clock,
   afterInit |-> op = "init" /\ last.op = "init"]

\* Time passes between two readings of the clock.
Tick ==
  /\ clock < MaxClock
  /\ clock' = clock + 1
  /\ UNCHANGED <<products, last, before, threads, log>>

GetProduct ==
  \E product_id \in ReqIds :
    \E out \in {GetProductById(products, product_id)} :
       /\ last' = Served("get_product", product_id, NoBody, NoInput, out)
       /\ before' = products
       /\ UNCHANGED <<products, clock, threads, log>>

EngagementGet ==
  \E product_id \in ReqIds :
    \E out \in {UpdateEngagement(products, product_id, "GET", NoBody, clock)} :
       /\ products' = IF out.write THEN SaveFile(products, out.mem, out.index) ELSE products
       /\ last' = Served("get_eng", product_id, NoBody, NoInput, out)
       /\ before' = products
       /\ UNCHANGED <<clock, threads, log>>

EngagementPut ==
  \E product_id \in ReqIds, body \in Bodies :
    \E out \in {UpdateEngagement(products, product_id, "PUT", body, clock)} :
       /\ WithinBounds(out.mem)
       /\ products' = IF out.write THEN SaveFile(products, out.mem, out.index) ELSE products
       /\ last' = Served("put", product_id, body, NoInput, out)
       /\ before' = products
       /\ UNCHANGED <<clock, threads, log>>

\* initialize_all_product_engagement (lines 341-365).
InitializeEngagement ==
  LET mem == InitializeAll(products, clock)
      out == [status |-> 200, write |-> TRUE, mem |-> mem, index |-> 0,
              resp |-> OkResp(NoProduct)]
  IN /\ products' = mem
     /\ last' = Served("init", "", NoBody, NoInput, out)
     /\ before' = products
     /\ UNCHANGED <<clock, threads, log>>

Analyze ==
  \E input \in AnalyzeInputs :
    LET status == AnalyzeStatus(input)
        out == [status |-> status, write |-> FALSE, mem |-> products, index |-> 0,
                resp |-> IF status = 200 THEN OkResp(NoProduct) ELSE ErrorResp]
    IN /\ last' = Served("analyze", "", NoBody, input, out)
       /\ before' = products
       /\ UNCHANGED <<products, clock, threads, log>>

Next ==
  \/ Tick
  \/ GetProduct
  \/ EngagementGet
  \/ EngagementPut
  \/ InitializeEngagement

Spec == Init /\ [][Next]_vars

\* /api/analyze reads and writes nothing of the store.
AnalyzeNext ==
  \/ Tick
  \/ Analyze

SpecAnalyze == Init /\ [][AnalyzeNext]_vars

----------------------------------------------------------------------------
\* Two PUT requests served concurrently, each by its own thread: the file is
\* read whole (lines 271-272), the update is made in the thread's memory
\* (lines 274-326), the file is written whole (lines 329-330).  Nothing locks
\* the file between a thread's read and its write.

ViewsBody == ObjectBody(<< <<"views", Num(1)>> >>)
LikesBody == ObjectBody(<< <<"likes", Num(1)>> >>)
RaceBodies == {ViewsBody, LikesBody}

InitRace ==
  /\ \E s1 \in InitShapes, s2 \in InitShapes :
       products = <<Product(StoredIds[1], s1), Product(StoredIds[2], s2)>>
  /\ clock = 1
  /\ last = NoReq
  /\ before = products
  /\ \E i1 \in {StoredIds[1], StoredIds[2]}, i2 \in {StoredIds[1], StoredIds[2]},
        b1 \in RaceBodies, b2 \in RaceBodies :
       threads = [t \in Threads |->
                    [pc |-> "start", id |-> IF t = 1 THEN i1 ELSE i2,
                     body |-> IF t = 1 THEN b1 ELSE b2, out |-> Failure(0, <<>>)]]
  /\ log = <<>>

Load(t) ==
  /\ threads[t].pc = "start"
  /\ threads' = [threads EXCEPT ![t].pc = "loaded", ![t].out = Failure(0, products)]
  /\ log' = Append(log, <<t, "load">>)
  /\ UNCHANGED <<products, clock, last, before>>

Compute(t) ==
  /\ threads[t].pc = "loaded"
  /\ threads' = [threads EXCEPT
                   ![t].pc = "computed",
                   ![t].out = UpdateEngagement(threads[t].out.mem, threads[t].id, "PUT",
                                               threads[t].body, clock)]
  /\ UNCHANGED <<products, clock, last, before, log>>

Save(t) ==
  /\ threads[t].pc = "computed"
  /\ threads' = [threads EXCEPT ![t].pc = "done"]
  /\ products' = IF threads[t].out.write
                 THEN SaveFile(products, threads[t].out.mem, threads[t].out.index)
                 ELSE products
  /\ log' = IF threads[t].out.write THEN Append(log, <<t, "save">>) ELSE log
  /\ UNCHANGED <<clock, last, before>>

RaceNext ==
  \/ Tick
  \/ \E t \in Threads : Load(t)
  \/ \E t \in Threads : Compute(t)
  \/ \E t \in Threads : Save(t)

SpecRace == InitRace /\ [][RaceNext]_vars

----------------------------------------------------------------------------
\* What the properties below speak of

Known(ps, id) == \E i \in 1..Len(ps) : ps[i].id = id
Stored(ps, id) == ps[CHOOSE i \in 1..Len(ps) : ps[i].id = id]
OthersSame(ps, qs, id) ==
  /\ Len(qs) = Len(ps)
  /\ \A i \in 1..Len(ps) : ps[i].id # id => qs[i] = ps[i]

Names(body, c) == \E i \in 1..Len(body.items) : body.items[i][1] = c
Delta(body, c) == body.items[CHOOSE i \in 1..Len(body.items) : body.items[i][1] = c][2]
NumericBody(body) ==
  /\ body.is_json
  /\ body.kind = "object"
  /\ \A i \in 1..Len(body.items) : body.items[i][2].t = "num"
OnlyUnrecognized(body) ==
  /\ body.is_json
  /\ body.kind = "object"
  /\ \A i \in 1..Len(body.items) : body.items[i][1] \notin Counters

\* A counter's stored value as a number: 0 when it is no number or not there.
PrevNum(rec, c) ==
  IF rec.has /\ c \in DOMAIN rec.stats /\ rec.stats[c].t = "num" THEN rec.stats[c].v ELSE 0

PutOnKnown == last.op = "put" /\ Known(before, last.id)

----------------------------------------------------------------------------
\* C1: after a PUT of numeric deltas on an existing product, every counter of
\* the persisted record is its previous value (0 when that was no number, or
\* not there) plus its delta, or its previous value when the body does not
\* name it, and the record returned with 200 is the persisted one.
C1_PutAddsEveryDelta ==
  (PutOnKnown /\ NumericBody(last.body)) =>
    LET old == Stored(before, last.id)
        new == Stored(products, last.id)
    IN /\ last.status = 200
       /\ last.resp = OkResp(new)
       /\ new.has
       /\ \A c \in Counters :
            IF Names(last.body, c)
            THEN /\ c \in DOMAIN new.stats
                 /\ new.stats[c] = Num(PrevNum(old, c) + Delta(last.body, c).v)
            ELSE IF old.has
                 THEN c \in DOMAIN old.stats =>
                        (c \in DOMAIN new.stats /\ new.stats[c] = old.stats[c])
                 ELSE c \in DOMAIN new.stats /\ new.stats[c] = Num(0)

\* C2, as amended: a PUT on an existing product whose body holds only names
\* that are no counters (last_updated among them) returns 200 with the
\* persisted record, leaves every stored counter as it was (all five 0 when
\* there was no engagement_stats), adds no field but last_updated, leaves the
\* other records alone, and sets last_updated to the clock reading taken
\* during the PUT, never to the client's value.
C2_UnrecognizedNamesOnlyStamp ==
  (PutOnKnown /\ OnlyUnrecognized(last.body)) =>
    LET old == Stored(before, last.id)
        new == Stored(products, last.id)
    IN /\ last.status = 200
       /\ last.resp = OkResp(new)
       /\ new.has
       /\ DOMAIN new.stats =
            (IF old.has THEN DOMAIN old.stats ELSE Counters) \cup {"last_updated"}
       /\ \A k \in DOMAIN new.stats \ {"last_updated"} :
            new.stats[k] = IF old.has THEN old.stats[k] ELSE Num(0)
       /\ new.stats["last_updated"] = Ts(last.now)
       /\ OthersSame(before, products, last.id)

\* C2, as stated: the same, and the new last_updated is strictly greater than
\* the one stored before.
C2_StampStrictlyGreater ==
  /\ C2_UnrecognizedNamesOnlyStamp
  /\ (PutOnKnown /\ OnlyUnrecognized(last.body)) =>
       LET old == Stored(before, last.id)
           new == Stored(products, last.id)
       IN (old.has /\ "last_updated" \in DOMAIN old.stats
             /\ old.stats["last_updated"].t = "ts") =>
            new.stats["last_updated"].v > old.stats["last_updated"].v

\* A PUT of {bogus_field, last_updated} at a later clock reading on a record
\* whose likes had been raised.
C2_Witness ==
  /\ PutOnKnown
  /\ last.body = ObjectBody(<< <<"bogus_field", Num(1)>>, <<"last_updated", StrVal>> >>)
  /\ last.status = 200
  /\ Stored(before, last.id).has
  /\ Stored(before, last.id).stats = [ZeroStats(1) EXCEPT !["likes"] = Num(1)]
  /\ Stored(products, last.id).stats = [ZeroStats(last.now) EXCEPT !["likes"] = Num(1)]
  /\ last.now > 1

\* C3: a GET of the engagement of a record without engagement_stats returns
\* five counters at 0 with a timestamp and the file then holds that object;
\* a GET of a record that has engagement_stats returns them and writes nothing.
C3_GetPersistsInitialization ==
  (last.op = "get_eng" /\ Known(before, last.id)) =>
    LET old == Stored(before, last.id)
        new == Stored(products, last.id)
    IN /\ last.status = 200
       /\ IF old.has
          THEN last.resp.product.stats = old.stats /\ products = before
          ELSE /\ last.resp.product.stats = ZeroStats(last.now)
               /\ new.has
               /\ new.stats = last.resp.product.stats
               /\ OthersSame(before, products, last.id)

\* C4: a record that an engagement GET or PUT was addressed to has an
\* engagement_stats object holding all five counters.
C4_AllCountersPresent ==
  (last.op \in {"put", "get_eng"} /\ last.status = 200) =>
    LET new == Stored(products, last.id)
    IN new.has /\ Counters \subseteq DOMAIN new.stats

\* C6: the bulk initialisation gives every record without engagement_stats
\* zeros and the one timestamp of the call, leaves the others as they were,
\* and a call that follows a call changes nothing in the file.
C6_InitializeIdempotent ==
  last.op = "init" =>
    /\ last.status = 200
    /\ Len(products) = Len(before)
    /\ \A i \in 1..Len(before) :
         products[i] = IF before[i].has THEN before[i]
                       ELSE [id |-> before[i].id, has |-> TRUE,
                             stats |-> ZeroStats(last.now)]
    /\ last.afterInit => products = before

\* A second call at a later clock reading than the timestamp the file holds.
C6_Witness ==
  /\ last.op = "init"
  /\ last.afterInit
  /\ \E i \in 1..Len(products), n \in 1..MaxClock :
       /\ n < last.now
       /\ products[i].stats = ZeroStats(n)

\* C8: for an id no record has, GET product, GET engagement and PUT
\* engagement answer 404 with an error, whatever the body, and the file is
\* left as it was.
C8_UnknownIdIs404 ==
  (last.op \in {"get_product", "get_eng", "put"} /\ ~Known(before, last.id)) =>
    /\ last.status = 404
    /\ last.resp.error
    /\ products = before

\* A PUT without JSON for an unknown id: 404, not 400.
C8_Witness ==
  /\ last.op = "put"
  /\ ~Known(before, last.id)
  /\ last.body = NotJsonBody
  /\ last.status = 404

C7_InvalidInputIs400 ==
  last.op = "analyze" =>
    /\ ~(last.input.content_json /\ last.input.parse = "object"
          /\ last.input.image = "image") => last.status = 400
    /\ last.status = 500 => last.input.classifier_raises

----------------------------------------------------------------------------
\* The two concurrent PUTs

AllDone == \A t \in Threads : threads[t].pc = "done"
Position(t, what) == CHOOSE i \in 1..Len(log) : log[i] = <<t, what>>

C9_LastWriterWins ==
  (AllDone /\ threads[1].id # threads[2].id) =>
    /\ Len(log) = 4
    /\ LET w == log[Len(log)][1]
           o == 3 - w
       IN /\ products = threads[w].out.mem
          /\ Stored(products, threads[o].id) = Stored(threads[o].out.mem, threads[o].id)
               <=> Position(w, "load") > Position(o, "save")

\* The update to one product lost through a PUT on the other.
C9_Witness ==
  /\ AllDone
  /\ threads[1].id # threads[2].id
  /\ Len(log) = 4
  /\ LET o == 3 - log[Len(log)][1]
     IN /\ threads[o].out.status = 200
        /\ Stored(products, threads[o].id) = Stored(before, threads[o].id)

====
